---- MODULE Spec2Model ----
(***************************************************************************)
(* BackTrack (src/app.py): a Streamlit script over two Firestore           *)
(* collections, 'logs' and 'goals'.  Every user action writes to a         *)
(* collection and reruns the script, which reloads both collections and    *)
(* recomputes the goal in effect, the daily aggregates, the qualifying     *)
(* sessions, the current best and the progress.                            *)
(*                                                                         *)
(* Distances are whole kilometres, weights whole kilograms.  A Date is     *)
(* <<day, time>>: the day number and the time of day.  A server timestamp  *)
(* is <<sec, usec>>.  An optional script global is a sequence of length    *)
(* 0 (never assigned in this run) or 1 (its value).                        *)
(***************************************************************************)
EXTENDS Integers, Sequences, FiniteSets, TLC

\* ------------------------------------------------------------- bounds
MaxLogs == 2
MaxDay == 3
MaxGoals == 2
MaxSec == 1
MaxUsec == 1

\* ------------------------------------------------------------- inputs
username == "me@example.com"
OtherUser == "other@example.com"

Days == 1..MaxDay
Times == {"08:00", "20:00"}
ActivityTypes == {"Running", "Cycling"}
Distances == {0, 5, 10}
Durations == {30}
PainLevels == {0, 3}
PainLocs == {"", "Knee"}
Weights == {80}
EditDistances == {-5}
GoalDistances == {-5, 0, 5}
GoalPains == {3}
GoalDates == {365, 400}

\* ------------------------------------------------------------- state
VARIABLES
    logs,             \* the 'logs' collection, every user's documents
    goals,            \* the 'goals' collection, in the order written
    goal_stream,      \* the order .stream() returns the goals in (document ids)
    error,            \* the st.error shown by the last submission
    target_activity, target_dist, target_pain, target_date,
    daily_stats,      \* day -> aggregate row
    valid_activities, \* <<row index, dist>> of the sessions that qualified
    current_best,     \* optional
    progress_pct,     \* optional, <<numerator, denominator>>
    achieved,         \* optional, the "GOAL ACHIEVED" banner
    exception         \* the exception that ended the run, or ""

store == <<logs, goals, goal_stream>>
page == <<target_activity, target_dist, target_pain, target_date, daily_stats,
          valid_activities, current_best, progress_pct, achieved, exception>>
vars == <<store, error, page>>

\* ------------------------------------------------------------- helpers
\* agg "first" where the script has "sum"
M_SumSeq(s) == IF s = <<>> THEN 0 ELSE Head(s)

RECURSIVE SumSeq(_)
SumSeq(s) == IF s = <<>> THEN 0 ELSE Head(s) + SumSeq(Tail(s))

RECURSIVE MaxSeq(_)
MaxSeq(s) ==
    IF Len(s) = 1 THEN Head(s)
    ELSE LET m == MaxSeq(Tail(s)) IN IF Head(s) >= m THEN Head(s) ELSE m

\* min(a, b) of two fractions with positive denominators
RatLeq(a, b) == a[1] * b[2] <= b[1] * a[2]
RatMin(a, b) == IF RatLeq(b, a) THEN b ELSE a

\* a / b for b # 0, with a positive denominator
Divide(a, b) == IF b > 0 THEN <<a, b>> ELSE <<0 - a, 0 - b>>

\* ------------------------------------------------------------- LOAD DATA
\* df["Date"].dt.date, row["Date"].date(): the time of day is dropped
DateOf(stamp) == stamp[1]

\* docs = db.collection('logs').where('User', '==', username).stream(),
\* each row carrying its document id
RECURSIVE LoadFrom(_, _)
LoadFrom(coll, i) ==
    IF i > Len(coll) THEN <<>>
    ELSE IF coll[i].User = username
         THEN <<[id |-> i] @@ coll[i]>> \o LoadFrom(coll, i + 1)
         ELSE LoadFrom(coll, i + 1)

LoadData(coll) == LoadFrom(coll, 1)

\* ------------------------------------------------------------- LOAD GOALS
\* str(datetime): "S", then ".U" unless the microseconds are 0, then "+00:00"
\* (character codes: '+' 43, '.' 46, '0' 48)
StrOfCreatedAt(ts) ==
    <<48 + ts[1]>> \o (IF ts[2] = 0 THEN <<>> ELSE <<46, 48 + ts[2]>>) \o <<43>>

\* Python's str < str
RECURSIVE StrLess(_, _)
StrLess(a, b) ==
    IF b = <<>> THEN FALSE
    ELSE IF a = <<>> THEN TRUE
    ELSE IF Head(a) # Head(b) THEN Head(a) < Head(b)
    ELSE StrLess(Tail(a), Tail(b))

SortKey(g) == StrOfCreatedAt(g.CreatedAt)

\* the sort without reverse=True
RECURSIVE M_InsertDesc(_, _)
M_InsertDesc(sorted, g) ==
    IF sorted = <<>> THEN <<g>>
    ELSE IF StrLess(StrOfCreatedAt(g.CreatedAt), StrOfCreatedAt(Head(sorted).CreatedAt))
         THEN <<g>> \o sorted
    ELSE <<Head(sorted)>> \o M_InsertDesc(Tail(sorted), g)

\* list.sort(key=..., reverse=True): descending and stable, so a record goes
\* behind every record whose key is not smaller than its own
RECURSIVE InsertDesc(_, _)
InsertDesc(sorted, g) ==
    IF sorted = <<>> THEN <<g>>
    ELSE IF StrLess(SortKey(Head(sorted)), SortKey(g)) THEN <<g>> \o sorted
    ELSE <<Head(sorted)>> \o InsertDesc(Tail(sorted), g)

RECURSIVE SortDesc(_)
SortDesc(list) ==
    IF list = <<>> THEN <<>>
    ELSE InsertDesc(SortDesc(SubSeq(list, 1, Len(list) - 1)), list[Len(list)])

\* goal_docs = db.collection('goals').where('User', '==', username).stream()
\* goal_list = [g.to_dict() for g in goal_docs]
GoalList(G, S) == SelectSeq([i \in 1..Len(S) |-> G[S[i]]], LAMBDA g : g.User = username)

DefaultGoal ==
    [TargetDist |-> 10, TargetPain |-> 2, TargetDate |-> 365, TargetActivity |-> "Running"]

LoadGoals(G, S) ==
    IF GoalList(G, S) # <<>>
    THEN LET last_goal == SortDesc(GoalList(G, S))[1] IN
         [TargetDist |-> last_goal.TargetDist, TargetPain |-> last_goal.TargetPain,
          TargetDate |-> last_goal.TargetDate, TargetActivity |-> last_goal.TargetActivity]
    ELSE DefaultGoal

\* ------------------------------------------------------------- DASHBOARD
RowsOn(df, d) == SelectSeq(df, LAMBDA r : DateOf(r.Date) = d)

\* df.groupby(df["Date"].dt.date).agg(sum, sum, max, mean)
DailyStats(df) ==
    [d \in {DateOf(df[i].Date) : i \in 1..Len(df)} |->
        LET rows == RowsOn(df, d) IN
        [Duration  |-> SumSeq([i \in 1..Len(rows) |-> rows[i].Duration]),
         Distance  |-> SumSeq([i \in 1..Len(rows) |-> rows[i].Distance]),
         PainLevel |-> MaxSeq([i \in 1..Len(rows) |-> rows[i].PainLevel]),
         Weight    |-> <<SumSeq([i \in 1..Len(rows) |-> rows[i].Weight]), Len(rows)>>]]

\* pain_map.get(day, 0)
PainMapGet(stats, d) == IF d \in DOMAIN stats THEN stats[d].PainLevel ELSE 0

\* target_logs = df[(df["Activity"] == target_activity) & (df["Distance"] > 0)]
TargetLogs(df, goal) ==
    SelectSeq(df, LAMBDA r : r.Activity = goal.TargetActivity /\ r.Distance > 0)

\* a window of two days
M_WindowOk(stats, run_date, pain) ==
    /\ (IF run_date \in DOMAIN stats THEN stats[run_date].PainLevel ELSE 0) <= pain
    /\ (IF run_date + 1 \in DOMAIN stats THEN stats[run_date + 1].PainLevel ELSE 0) <= pain

\* the condition of the loop over target_logs
WindowOk(stats, run_date, pain) ==
    /\ PainMapGet(stats, run_date) <= pain
    /\ PainMapGet(stats, run_date + 1) <= pain
    /\ PainMapGet(stats, run_date + 2) <= pain

ValidActivities(df, stats, goal) ==
    LET ok == SelectSeq(TargetLogs(df, goal),
                        LAMBDA r : WindowOk(stats, DateOf(r.Date), goal.TargetPain))
    IN [i \in 1..Len(ok) |-> <<ok[i].id, ok[i].Distance>>]

\* the latest qualifying session where the script takes the longest
M_CurrentBest(valid) == IF valid # <<>> THEN valid[Len(valid)][2] ELSE 0

\* current_best = max(valid_activities) if valid_activities else 0.0
CurrentBest(valid) ==
    IF valid # <<>> THEN MaxSeq([i \in 1..Len(valid) |-> valid[i][2]]) ELSE 0

\* the ratio without the clamp
M_ProgressPct(best, dist) == Divide(best, dist)

\* progress_pct = min(current_best / target_dist, 1.0)
ProgressPct(best, dist) == RatMin(Divide(best, dist), <<1, 1>>)

\* one run of the script over the collections L (logs), G and S (goals):
\* the globals it leaves behind
Script(L, G, S) ==
    LET df == LoadData(L)
        goal == LoadGoals(G, S)
        stats == DailyStats(df)
        valid == ValidActivities(df, stats, goal)
        best == CurrentBest(valid)
        empty == df = <<>>
        zero == goal.TargetDist = 0
    IN [target_activity  |-> goal.TargetActivity,
        target_dist      |-> goal.TargetDist,
        target_pain      |-> goal.TargetPain,
        target_date      |-> goal.TargetDate,
        daily_stats      |-> IF empty THEN <<>> ELSE stats,
        valid_activities |-> IF empty THEN <<>> ELSE valid,
        current_best     |-> IF empty THEN <<>> ELSE <<best>>,
        progress_pct     |-> IF empty \/ zero THEN <<>>
                             ELSE <<ProgressPct(best, goal.TargetDist)>>,
        achieved         |-> IF empty \/ zero THEN <<>>
                             ELSE <<best >= goal.TargetDist>>,
        exception        |-> IF ~empty /\ zero THEN "ZeroDivisionError" ELSE ""]

\* st.rerun(): the script runs again over the collections as just written
Rerun ==
    LET run == Script(logs', goals', goal_stream') IN
    /\ target_activity' = run.target_activity
    /\ target_dist' = run.target_dist
    /\ target_pain' = run.target_pain
    /\ target_date' = run.target_date
    /\ daily_stats' = run.daily_stats
    /\ valid_activities' = run.valid_activities
    /\ current_best' = run.current_best
    /\ progress_pct' = run.progress_pct
    /\ achieved' = run.achieved
    /\ exception' = run.exception

\* ------------------------------------------------------------- New Entry
\* what the entry form can hold: a widget that is not shown keeps its default
EntryForms ==
    {[log_type |-> "Activity", date_val |-> d, time_val |-> t, activity_type |-> a,
      distance |-> x, duration |-> m, pain_loc |-> "", pain_level |-> 0, weight_val |-> 0] :
        d \in Days, t \in Times, a \in ActivityTypes, x \in Distances, m \in Durations}
    \cup
    {[log_type |-> "Pain Check-in", date_val |-> d, time_val |-> t, activity_type |-> "",
      distance |-> 0, duration |-> 0, pain_loc |-> l, pain_level |-> p, weight_val |-> 0] :
        d \in Days, t \in Times, l \in PainLocs, p \in PainLevels}
    \cup
    {[log_type |-> "Body Weight", date_val |-> d, time_val |-> t, activity_type |-> "",
      distance |-> 0, duration |-> 0, pain_loc |-> "", pain_level |-> 0, weight_val |-> w] :
        d \in Days, t \in Times, w \in Weights}

\* an Activity stored with the intensity slider's value as its pain level
M_LogData(w) ==
    [User      |-> username,
     Date      |-> <<w.date_val, w.time_val>>,
     Type      |-> w.log_type,
     Activity  |-> IF w.log_type = "Activity" THEN w.activity_type ELSE "",
     Distance  |-> w.distance,
     Duration  |-> w.duration,
     PainLoc   |-> w.pain_loc,
     PainLevel |-> IF w.log_type = "Activity" THEN 5 ELSE w.pain_level,
     Weight    |-> w.weight_val]

LogData(w) ==
    [User      |-> username,
     Date      |-> <<w.date_val, w.time_val>>,
     Type      |-> w.log_type,
     Activity  |-> IF w.log_type = "Activity" THEN w.activity_type ELSE "",
     Distance  |-> w.distance,
     Duration  |-> w.duration,
     PainLoc   |-> w.pain_loc,
     PainLevel |-> w.pain_level,
     Weight    |-> w.weight_val]

\* the handler without the location check
M_SubmitEntry(w) ==
    /\ Len(LoadData(logs)) < MaxLogs
    /\ logs' = Append(logs, LogData(w))
    /\ error' = ""
    /\ UNCHANGED <<goals, goal_stream>>
    /\ Rerun

\* "Save Entry"
SubmitEntry(w) ==
    /\ Len(LoadData(logs)) < MaxLogs
    /\ IF w.log_type = "Pain Check-in" /\ w.pain_loc = ""
       THEN /\ error' = "Please enter a location!"
            /\ UNCHANGED <<store, page>>
       ELSE /\ logs' = Append(logs, LogData(w))
            /\ error' = ""
            /\ UNCHANGED <<goals, goal_stream>>
            /\ Rerun

\* ------------------------------------------------------------- Manage Data
\* the ids the "Select entry" dropdown offers
EntryIds == {LoadData(logs)[k].id : k \in 1..Len(LoadData(logs))}

\* "Update Entry"
UpdateEntry(doc_id, new_dist, new_pain, new_dur) ==
    /\ doc_id \in EntryIds
    /\ logs' = [logs EXCEPT ![doc_id].Distance = new_dist,
                            ![doc_id].PainLevel = new_pain,
                            ![doc_id].Duration = new_dur]
    /\ error' = ""
    /\ UNCHANGED <<goals, goal_stream>>
    /\ Rerun

\* "Delete Permanently"
DeleteEntry(doc_id) ==
    /\ doc_id \in EntryIds
    /\ logs' = SubSeq(logs, 1, doc_id - 1) \o SubSeq(logs, doc_id + 1, Len(logs))
    /\ error' = ""
    /\ UNCHANGED <<goals, goal_stream>>
    /\ Rerun

\* ------------------------------------------------------------- Edit Goal Settings
GoalForms ==
    {[new_activity |-> a, new_dist |-> x, new_pain |-> p, new_date |-> d] :
        a \in ActivityTypes, x \in GoalDistances, p \in GoalPains, d \in GoalDates}

\* firestore.SERVER_TIMESTAMP: the server clock never runs backwards
Stamps == (0..MaxSec) \X (0..MaxUsec)
StampLeq(s, t) == s[1] < t[1] \/ (s[1] = t[1] /\ s[2] <= t[2])
ServerTimestamps ==
    {t \in Stamps : \A i \in 1..Len(goals) : StampLeq(goals[i].CreatedAt, t)}

GoalData(w, stamp) ==
    [User           |-> username,
     TargetDist     |-> w.new_dist,
     TargetPain     |-> w.new_pain,
     TargetDate     |-> w.new_date,
     TargetActivity |-> w.new_activity,
     CreatedAt      |-> stamp]

\* "Update Goal"; the form is part of the dashboard, which an empty df hides.
\* The new document's id puts it anywhere in the order .stream() returns.
UpdateGoal(w, stamp, pos) ==
    /\ LoadData(logs) # <<>>
    /\ Len(goals) < MaxGoals
    /\ stamp \in ServerTimestamps
    /\ pos \in 0..Len(goal_stream)
    /\ goals' = Append(goals, GoalData(w, stamp))
    /\ goal_stream' = SubSeq(goal_stream, 1, pos) \o <<Len(goals) + 1>>
                      \o SubSeq(goal_stream, pos + 1, Len(goal_stream))
    /\ error' = ""
    /\ UNCHANGED logs
    /\ Rerun

\* ------------------------------------------------------------- specification
\* another user's documents are in the collection
OtherLogs ==
    <<[User |-> OtherUser, Date |-> <<2, "08:00">>, Type |-> "Pain Check-in",
       Activity |-> "", Distance |-> 0, Duration |-> 0, PainLoc |-> "Knee",
       PainLevel |-> 3, Weight |-> 0]>>

\* the globals of the first run
FirstRun ==
    LET run == Script(logs, goals, goal_stream) IN
    /\ target_activity = run.target_activity
    /\ target_dist = run.target_dist
    /\ target_pain = run.target_pain
    /\ target_date = run.target_date
    /\ daily_stats = run.daily_stats
    /\ valid_activities = run.valid_activities
    /\ current_best = run.current_best
    /\ progress_pct = run.progress_pct
    /\ achieved = run.achieved
    /\ exception = run.exception

\* Logging under the goal the user signed in with: no goal document yet, or
\* one written in an earlier session.
EarlierGoals ==
    {[new_activity |-> "Cycling", new_dist |-> 5, new_pain |-> 3, new_date |-> 400]}

Init ==
    /\ logs = OtherLogs
    /\ goals \in {<<>>} \cup {<<GoalData(w, <<0, 0>>)>> : w \in EarlierGoals}
    /\ goal_stream = [i \in 1..Len(goals) |-> i]
    /\ error = ""
    /\ FirstRun

Next ==
    \/ \E w \in EntryForms : SubmitEntry(w)
    \/ \E id \in 1..Len(logs) :
          \E x \in {logs[id].Distance} \cup EditDistances, p \in PainLevels :
             UpdateEntry(id, x, p, logs[id].Duration)
    \/ \E id \in 1..Len(logs) : DeleteEntry(id)

Spec == Init /\ [][Next]_vars

\* Editing the goal, with a few entries to measure it against.
GoalEntryForms ==
    {w \in EntryForms : /\ w.time_val = "08:00"
                        /\ \/ w.activity_type = "Running" /\ w.date_val = 1 /\ w.distance > 0
                           \/ w.pain_level = 3 /\ w.date_val = 2 /\ w.pain_loc # ""}

GoalInit ==
    /\ logs = OtherLogs
    /\ goals = <<>>
    /\ goal_stream = <<>>
    /\ error = ""
    /\ FirstRun

GoalNext ==
    \/ \E w \in GoalEntryForms : SubmitEntry(w)
    \/ \E id \in 1..Len(logs) : DeleteEntry(id)
    \/ \E w \in GoalForms, t \in Stamps, pos \in 0..MaxGoals : UpdateGoal(w, t, pos)

GoalSpec == GoalInit /\ [][GoalNext]_vars

\* ------------------------------------------------------------- properties
\* The statements below read the collections directly and never use the
\* operators of the script.

Mine == {i \in 1..Len(logs) : logs[i].User = username}
MineOn(d) == {i \in Mine : logs[i].Date[1] = d}
MyDays == {logs[i].Date[1] : i \in Mine}

RECURSIVE SumField(_, _)
SumField(S, f) ==
    IF S = {} THEN 0
    ELSE LET i == CHOOSE j \in S : TRUE IN logs[i][f] + SumField(S \ {i}, f)

\* the highest pain level logged on day d, 0 for a day without entries
DayPain(d) ==
    IF MineOn(d) = {} THEN 0
    ELSE CHOOSE p \in {logs[i].PainLevel : i \in MineOn(d)} :
            \A i \in MineOn(d) : logs[i].PainLevel <= p

Sessions == {i \in Mine : logs[i].Activity = target_activity /\ logs[i].Distance > 0}
WindowSafe(i) == \A k \in 0..2 : DayPain(logs[i].Date[1] + k) <= target_pain
Qualified == {valid_activities[k][1] : k \in 1..Len(valid_activities)}
SafeDistances == {logs[i].Distance : i \in {j \in Sessions : WindowSafe(j)}}
Best ==
    IF SafeDistances = {} THEN 0
    ELSE CHOOSE x \in SafeDistances : \A y \in SafeDistances : y <= x

\* C1: a session of the target activity on day D is counted as qualifying
\* exactly when the highest pain of D, D+1 and D+2 is each at most the pain
\* ceiling, a day without entries counting as pain 0.
C1_SafetyWindow ==
    /\ Qualified \subseteq Sessions
    /\ \A i \in Sessions : i \in Qualified <=> WindowSafe(i)

\* a session whose day D and D+1 are fine and whose D+2 is not: it is left out
C1_Witness ==
    \E i \in Sessions :
        /\ DayPain(logs[i].Date[1]) <= target_pain
        /\ DayPain(logs[i].Date[1] + 1) <= target_pain
        /\ DayPain(logs[i].Date[1] + 2) > target_pain
        /\ i \notin Qualified

Newest(i) == \A j \in 1..Len(goals) : StampLeq(goals[j].CreatedAt, goals[i].CreatedAt)
InEffect(i) ==
    /\ target_activity = goals[i].TargetActivity
    /\ target_dist = goals[i].TargetDist
    /\ target_pain = goals[i].TargetPain
    /\ target_date = goals[i].TargetDate

\* C2: the goal in effect is a goal record with the latest creation timestamp
\* of all the user's goal records, whatever order the store returns them in.
C2_LatestGoal ==
    goals # <<>> => \E i \in 1..Len(goals) : Newest(i) /\ InEffect(i)

\* two goals, the store returning the older one first, and they differ
C2_Witness ==
    /\ Len(goals) = 2
    /\ goal_stream = <<1, 2>>
    /\ goals[1].CreatedAt # goals[2].CreatedAt
    /\ goals[1].TargetDist # goals[2].TargetDist
    /\ InEffect(2)

\* C3: among the goal records that share the latest creation timestamp, the
\* one written last is the goal in effect.
C3_LastWrittenWins ==
    goals # <<>> =>
        \E i \in 1..Len(goals) :
            /\ Newest(i)
            /\ \A j \in 1..Len(goals) : Newest(j) => j <= i
            /\ InEffect(i)

\* C4: whenever the progress is computed, the target distance is positive.
C4_PositiveTarget == current_best # <<>> => target_dist > 0

\* C5: the mean weight of a day is the mean of the weights of its Body Weight
\* entries alone, and has no value on a day without one.
C5_MeanOfPresentWeights ==
    \A d \in DOMAIN daily_stats :
        LET present == {i \in MineOn(d) : logs[i].Type = "Body Weight"}
            mean == daily_stats[d].Weight
        IN /\ present # {}
           /\ mean[1] * Cardinality(present) = SumField(present, "Weight") * mean[2]

C7_Progress ==
    (current_best # <<>> /\ target_dist > 0) =>
        LET best == current_best[1]
            pct == progress_pct[1]
        IN /\ Len(progress_pct) = 1 /\ Len(achieved) = 1
           /\ pct[2] > 0
           /\ IF best >= target_dist THEN pct[1] = pct[2]
              ELSE pct[1] * target_dist = best * pct[2]
           /\ 0 <= pct[1] /\ pct[1] <= pct[2]
           /\ achieved[1] <=> best >= target_dist
           /\ achieved[1] <=> pct[1] = pct[2]

\* the best is beyond the target: the percent is clamped to 1
C7_Witness ==
    /\ current_best # <<>> /\ target_dist > 0
    /\ current_best[1] > target_dist
    /\ progress_pct = <<<<1, 1>>>>
    /\ achieved = <<TRUE>>

\* C8: daily aggregation has exactly one row per calendar date of the log,
\* whatever the times of day, and a row's duration and distance are the sums
\* over the entries of that date.
C8_DailyAggregation ==
    /\ DOMAIN daily_stats = MyDays
    /\ \A d \in MyDays :
          /\ daily_stats[d].Duration = SumField(MineOn(d), "Duration")
          /\ daily_stats[d].Distance = SumField(MineOn(d), "Distance")

\* two entries of one day at different times, both with a duration and a distance
C8_Witness ==
    \E i, j \in Mine :
        /\ logs[i].Date[1] = logs[j].Date[1]
        /\ logs[i].Date[2] # logs[j].Date[2]
        /\ logs[i].Duration > 0 /\ logs[j].Duration > 0
        /\ logs[i].Distance > 0 /\ logs[j].Distance > 0
        /\ daily_stats[logs[i].Date[1]].Duration = logs[i].Duration + logs[j].Duration

\* C9: a Pain Check-in submitted without a location shows the error and leaves
\* the logs collection as it was; any other submission adds exactly one
\* document, whose User is the signed-in user.
C9_Submission ==
    [][\A w \in EntryForms :
          SubmitEntry(w) =>
             IF w.log_type = "Pain Check-in" /\ w.pain_loc = ""
             THEN logs' = logs /\ error' = "Please enter a location!"
             ELSE /\ Len(logs') = Len(logs) + 1
                  /\ SubSeq(logs', 1, Len(logs)) = logs
                  /\ logs'[Len(logs')].User = username
                  /\ error' = ""]_vars

\* a submission was rejected while the user already had an entry
C9_Witness ==
    /\ error = "Please enter a location!"
    /\ Mine # {}

\* C10: under one goal, saving a Pain Check-in never raises the current best
\* and saving an Activity never lowers it.
C10_Monotone ==
    [][\A w \in EntryForms :
          (SubmitEntry(w) /\ current_best # <<>> /\ current_best' # <<>>) =>
             /\ w.log_type = "Pain Check-in" => current_best'[1] <= current_best[1]
             /\ w.log_type = "Activity" => current_best'[1] >= current_best[1]]_vars

\* a session with a Pain Check-in above the ceiling in its window: it no longer counts
C10_Witness ==
    \E i \in Sessions, j \in Mine :
        /\ logs[j].Type = "Pain Check-in"
        /\ logs[j].PainLevel > target_pain
        /\ logs[j].Date[1] - logs[i].Date[1] \in 1..2
        /\ logs[i].PainLevel <= target_pain
        /\ current_best = <<0>>

====
